---- MODULE Spec2Model ----
(***************************************************************************)
(* Session store (AuthProvider), status resolver and gating router of the  *)
(* beritabank web client.                                                  *)
(*                                                                         *)
(* Time is counted in units of 1000 ms.  One action is one callback of the *)
(* single-threaded event loop: the handler's state updates, the re-render  *)
(* they cause and the passive effects of that render (React flushes them   *)
(* before it handles the next event).                                      *)
(***************************************************************************)
EXTENDS Integers, Sequences, FiniteSets, Bags, TLC

\* ---------------------------------------------------------------- bounds
Horizon == 6        \* clock ticks explored after application start
MaxInFlight == 2    \* status queries outstanding at the same time
MaxHeld == 2        \* delayed refresh callbacks pending at the same time

\* ------------------------------------------------------ program constants
CheckCooldown == 5      \* (now - lastStatusCheck) > 5000 in checkStatus
RefreshCooldown == 2    \* (now - lastStatusCheck) > 2000 in refreshUserStatus
VerifiedDelay == 2      \* setTimeout(() => onVerified(), 2000)
SavedDelay == 2         \* setTimeout(async () => refreshUserStatus(), 2000)
TypingDelay == 2        \* setTimeout(() => setShowInput(true), 2000)

\* Date.now() is far beyond any cooldown when the page loads, so the first
\* comparison against lastStatusCheck = 0 always passes.
Now0 == CheckCooldown + 1
MaxNow == Now0 + Horizon

\* --------------------------------------------------------- JavaScript values
Null == "<null>"            \* null as a primitive (token, field values)
Undefined == "<undefined>"  \* undefined
NullObj == [isNull |-> TRUE]    \* null where an object is expected

\* Boolean(v) for the primitives a token can hold
Truthy(v) == v \notin {Null, Undefined, ""}

Keys == {"user_id", "username", "email", "token"}

\* the bodies login() is called with: res.data of /api/auth/login, or the
\* record Register builds; nothing checks that a field is present
AuthDatas ==
  { [user_id |-> "u1", username |-> "bob", email |-> "b@x.com", token |-> "t1"],
    [user_id |-> "u3", username |-> "eve", email |-> "e@x.com", token |-> Undefined],
    [user_id |-> Null, username |-> "dan", email |-> "d@x.com", token |-> ""] }

\* ------------------------------------------------------------ localStorage
\* the value under the key 'user': absent, a text JSON.parse rejects, the
\* text "null", or the serialisation of an object
Absent == [kind |-> "absent"]
EmptyText == [kind |-> "text", text |-> ""]
BadText == [kind |-> "text", text |-> "{oops"]
JsonNull == [kind |-> "jsonnull"]

\* JSON.stringify drops the properties whose value is undefined
JSONStringify(a) ==
  [kind |-> "json",
   obj |-> [k \in {j \in Keys : a[j] # Undefined} |-> a[k]]]

\* localStorage.getItem(...) is falsy: no item, or the empty string
StoredFalsy(s) == s = Absent \/ s = EmptyText

\* JSON.parse throws on text that is not JSON
ParseThrows(s) == s.kind = "text"

\* reading parsed.<k> throws when JSON.parse returned null
ReadThrows(s) == s.kind = "jsonnull"

\* parsed.<k>: a property the object lacks reads as undefined
Prop(s, k) == IF k \in DOMAIN s.obj THEN s.obj[k] ELSE Undefined

\* what the page may find under the key when it is loaded
InitialStorage ==
  {Absent, EmptyText, BadText, JsonNull} \cup {JSONStringify(a) : a \in AuthDatas}

\* what a store that takes no more data is explored with: no session
\* record, or the record of an earlier session
FullStoreContents ==
  {Absent,
   JSONStringify([user_id |-> "u1", username |-> "bob", email |-> "b@x.com",
                  token |-> "t1"])}

\* ------------------------------------------------------------ user status
email_verification == "email_verification"
user_description == "user_description"

\* what GET /api/auth/check_status answers in data
ApiStatus(v, d) ==
  [is_verified |-> v, has_description |-> d, all_requirements_met |-> v /\ d,
   missing_requirements |->
     (IF v THEN <<>> ELSE <<email_verification>>) \o
     (IF d THEN <<>> ELSE <<user_description>>)]

ApiStatuses == {ApiStatus(v, d) : v \in BOOLEAN, d \in BOOLEAN}

\* a fallback that lists no missing requirement
DefaultWithoutRequirements ==
  [is_verified |-> FALSE, has_description |-> FALSE,
   all_requirements_met |-> FALSE, missing_requirements |-> <<>>]

\* the object the checkStatus effect stores when the query fails
PessimisticDefault ==
  [is_verified |-> FALSE, has_description |-> FALSE,
   all_requirements_met |-> FALSE,
   missing_requirements |-> <<email_verification, user_description>>]

Includes(seq, x) == \E i \in 1..Len(seq) : seq[i] = x

\* ------------------------------------------------------------------- state
VARIABLES
  storage,          \* localStorage item 'user'
  quotaExceeded,    \* localStorage.setItem throws: the store takes no more data
  mounted,          \* the mount effect of AuthProvider has run
  user, token, loading, userStatus, statusLoading, lastStatusCheck,
  value,            \* the memoized context value the consumers hold
  inflight,         \* bag of the status queries awaiting a response: "check" | "refresh"
  held,             \* bag of the delayed callbacks holding a refreshUserStatus closure
  now,              \* Date.now()
  refreshLog,       \* times of the last two queries refreshUserStatus issued
  isSaving,         \* ProfileCompletion shows its saving screen
  lastOp,           \* the callback that ran last
  thrown            \* that callback let an exception escape

\* the components outside the session store, one record each
VARIABLES
  flow,             \* an OnboardingFlow instance and what its host was handed
  verification,     \* an EmailVerification instance: the resend countdown
  call,             \* the last call of an authService function
  lang,             \* LanguageProvider and the localStorage item 'language'
  register          \* the Register page and the items it keeps in localStorage

views == <<flow, verification, call, lang, register>>

vars == <<storage, quotaExceeded, mounted, user, token, loading, userStatus, statusLoading,
          lastStatusCheck, value, inflight, held, now, refreshLog,
          isSaving, lastOp, thrown, flow, verification, call, lang, register>>

\* ------------------------------------------------------------------- text
\* a string is the sequence of its pieces: a space, a character, or a word
\* that no operation takes apart
Space == " "

RECURSIVE trimStart(_)
trimStart(s) ==
  IF s # <<>> /\ Head(s) = Space THEN trimStart(Tail(s)) ELSE s

RECURSIVE trimEnd(_)
trimEnd(s) ==
  IF s # <<>> /\ s[Len(s)] = Space THEN trimEnd(SubSeq(s, 1, Len(s) - 1)) ELSE s

\* String.prototype.trim
trim(s) == trimEnd(trimStart(s))

\* Array.prototype.join
RECURSIVE join(_, _)
join(parts, sep) ==
  IF parts = <<>> THEN <<>>
  ELSE IF Len(parts) = 1 THEN parts[1]
  ELSE parts[1] \o sep \o join(Tail(parts), sep)

\* ---------------------------------------------------------- OnboardingFlow
\* the questions, in the order they are asked; question stands for the
\* translated prompt
questions ==
  << [key |-> "banksUsed", question |-> "banksUsedQuestion", type |-> "bankSelect"],
     [key |-> "investmentTypes", question |-> "investmentTypesQuestion", type |-> "text"],
     [key |-> "riskTolerance", question |-> "riskToleranceQuestion",
      type |-> "multipleChoice"],
     [key |-> "newsPresentation", question |-> "newsPresentationQuestion",
      type |-> "multipleChoice"] >>

\* the state a new OnboardingFlow instance starts with; described lists the
\* descriptions onComplete was called with, advanced and skipped what
\* handleNext recorded and which steps handleSkip left
FlowStart ==
  [mounted |-> TRUE, currentStep |-> 0, answers |-> <<>>, currentAnswer |-> <<>>,
   showInput |-> FALSE, selectedBank |-> "", described |-> <<>>,
   advanced |-> <<>>, skipped |-> {}]

\* no OnboardingFlow is on the screen
NoFlow == [FlowStart EXCEPT !.mounted = FALSE]

\* ------------------------------------------------------- EmailVerification
\* the state a new EmailVerification instance starts with; intervals counts
\* the setInterval timers that were not cleared, started and ticks are the
\* minutes of the last startCountdown and the timer callbacks since, op the
\* callback that ran last
VerificationStart ==
  [mounted |-> TRUE, timeRemaining |-> 0, canResend |-> TRUE,
   countdownActive |-> FALSE, isResending |-> FALSE, error |-> <<>>,
   intervals |-> 0, started |-> 0, ticks |-> 0, op |-> "mount"]

\* no EmailVerification is on the screen
NoVerification == [VerificationStart EXCEPT !.mounted = FALSE]

\* no authService function was called
NoCall == [fn |-> "", response |-> NullObj, outcome |-> NullObj]

\* -------------------------------------------------------- LanguageProvider
\* the localStorage item 'language': none, a language, or something else
LanguageItems == {Null, "en", "id", "fr"}

\* the initial state of useState: the stored language when it is one of
\* the two, 'id' otherwise; requested is the language last asked for
LanguageStart(saved) ==
  [mounted |-> FALSE, stored |-> saved, requested |-> Null,
   language |-> IF saved = "en" \/ saved = "id" THEN saved ELSE "id"]

\* LanguageProvider over an empty store, left alone
NoLang == LanguageStart(Null)

\* ---------------------------------------------------------------- Register
\* the Register page before the form is submitted; registration_token and
\* user_id are the two items it keeps in localStorage, registrationToken
\* the token handleCreateDescriptionAndLogin read, the pending fields count
\* the timers that have not fired, log lists what happened
RegisterStart ==
  [mounted |-> TRUE, showEmailVerification |-> FALSE, showOnboarding |-> FALSE,
   isLoading |-> FALSE, successMessage |-> FALSE, errors |-> FALSE,
   request |-> "", registrationToken |-> Null,
   registration_token |-> Null, user_id |-> Null,
   pendingVerification |-> 0, pendingVerified |-> 0, pendingOnboarding |-> 0,
   pendingNavigate |-> 0, attempts |-> 0, log |-> <<>>]

\* the Register page is not on the screen
NoRegister == [RegisterStart EXCEPT !.mounted = FALSE]

\* a context value that derives isAuthenticated from the user record
MemoValueByUser(tok, usr, st, sl, last) ==
  [user |-> usr, token |-> tok, isAuthenticated |-> usr # NullObj,
   userStatus |-> st, statusLoading |-> sl, last |-> last]

\* the object useMemo builds; last is the lastStatusCheck that the
\* refreshUserStatus of that render closes over
MemoValue(tok, usr, st, sl, last) ==
  [user |-> usr, token |-> tok, isAuthenticated |-> Truthy(tok),
   userStatus |-> st, statusLoading |-> sl, last |-> last]

Init ==
  /\ storage \in InitialStorage
  /\ quotaExceeded \in BOOLEAN
  /\ quotaExceeded => storage \in FullStoreContents
  /\ mounted = FALSE
  /\ user = NullObj
  /\ token = Null
  /\ loading = TRUE
  /\ userStatus = NullObj
  /\ statusLoading = FALSE
  /\ lastStatusCheck = 0
  /\ value = MemoValue(Null, NullObj, NullObj, FALSE, 0)
  /\ inflight = EmptyBag
  /\ held = EmptyBag
  /\ now = Now0
  /\ refreshLog = <<0, 0>>
  /\ isSaving = FALSE
  /\ lastOp = "init"
  /\ thrown = FALSE
  /\ flow = NoFlow
  /\ verification = NoVerification
  /\ call = NoCall
  /\ lang = NoLang
  /\ register = NoRegister

sessionVars == <<storage, quotaExceeded, mounted, user, token, loading, userStatus,
                 statusLoading, lastStatusCheck, value, inflight, held, now,
                 refreshLog, isSaving, lastOp, thrown>>

\* the session store before its mount effect, over stored item s and a
\* store that rejects writes (q) or not
SessionStart(s, q) ==
  /\ storage = s
  /\ quotaExceeded = q
  /\ mounted = FALSE
  /\ user = NullObj
  /\ token = Null
  /\ loading = TRUE
  /\ userStatus = NullObj
  /\ statusLoading = FALSE
  /\ lastStatusCheck = 0
  /\ value = MemoValue(Null, NullObj, NullObj, FALSE, 0)
  /\ inflight = EmptyBag
  /\ held = EmptyBag
  /\ now = Now0
  /\ refreshLog = <<0, 0>>
  /\ isSaving = FALSE
  /\ lastOp = "init"
  /\ thrown = FALSE

\* a component explored on its own: nobody is logged in, nothing is stored
SessionIdle == SessionStart(Absent, FALSE)

\* --------------------------------------------------------- context value
isAuthenticated == value.isAuthenticated

UserOf(read(_)) ==
  [userId |-> read("user_id"), username |-> read("username"), email |-> read("email")]

\* ------------------------------------------------------------------ router
\* HomeOrRedirect and ProtectedClaudia have the same body
HomeOrRedirect(v) ==
  IF ~v.isAuthenticated THEN "Home"
  ELSE IF v.statusLoading THEN "Loading"
  ELSE IF v.userStatus # NullObj /\ ~v.userStatus.all_requirements_met
       THEN "ProfileCompletion"
  ELSE "Claudia"

ProtectedClaudia(v) ==
  IF ~v.isAuthenticated THEN "Home"
  ELSE IF v.statusLoading THEN "Loading"
  ELSE IF v.userStatus # NullObj /\ ~v.userStatus.all_requirements_met
       THEN "ProfileCompletion"
  ELSE "Claudia"

\* a ProfileCompletion that tests user_description before email_verification
ProfileScreenDescriptionFirst(st, sl) ==
  IF sl THEN "loading"
  ELSE IF st = NullObj THEN "navigate:/login"
  ELSE IF st.all_requirements_met THEN "navigate:/"
  ELSE IF Includes(st.missing_requirements, user_description)
       THEN "onboarding"
  ELSE IF Includes(st.missing_requirements, email_verification)
       THEN "email-verification"
  ELSE "navigate:/"

\* ProfileCompletion that renders from missing_requirements
ProfileScreen(st, sl) ==
  IF sl THEN "loading"
  ELSE IF st = NullObj THEN "navigate:/login"
  ELSE IF st.all_requirements_met THEN "navigate:/"
  ELSE IF Includes(st.missing_requirements, email_verification)
       THEN "email-verification"
  ELSE IF Includes(st.missing_requirements, user_description)
       THEN "onboarding"
  ELSE "navigate:/"

\* ProfileCompletion that selects currentStep from the two flags
StepSelection(st, sl) ==
  IF st = NullObj \/ sl THEN "checking"
  ELSE IF ~st.is_verified /\ ~st.has_description THEN "email-verification"
  ELSE IF ~st.is_verified THEN "email-verification"
  ELSE IF ~st.has_description THEN "onboarding"
  ELSE "navigate:/claudia"

\* the screen the gated route shows: the saving screen of
\* ProfileCompletion comes before its other screens
Screen ==
  IF HomeOrRedirect(value) = "ProfileCompletion"
  THEN IF isSaving THEN "saving"
       ELSE ProfileScreen(value.userStatus, value.statusLoading)
  ELSE HomeOrRedirect(value)

\* the local state of ProfileCompletion is lost when the router replaces it
KeepMounted(flag) ==
  isSaving' = (flag /\ HomeOrRedirect(value') = "ProfileCompletion")

\* ------------------------------------------------ the checkStatus effect
\* the condition under which checkStatus issues a query
CheckGuard(tok, usr, st, last, t) ==
  Truthy(tok) /\ usr # NullObj /\ st = NullObj /\ (t - last) > CheckCooldown

\* The render that follows a callback and the effect of that render.
\* memoChanged: one of user, token, loading, userStatus, statusLoading
\* changed, so the context value and its refreshUserStatus are rebuilt;
\* depsChanged: one of token, user, userStatus, lastStatusCheck changed, so
\* the effect runs.  val is the context value before the render.
AfterRender(tok, usr, st, sl, last, val, memoChanged, depsChanged) ==
  LET v1 == IF memoChanged THEN MemoValue(tok, usr, st, sl, last) ELSE val
  IN IF depsChanged /\ CheckGuard(tok, usr, st, last, now)
     THEN [sl |-> TRUE, last |-> now, issue |-> TRUE,
           val |-> IF sl THEN v1 ELSE MemoValue(tok, usr, st, TRUE, now)]
     ELSE [sl |-> sl, last |-> last, issue |-> FALSE, val |-> v1]

Commit(r) ==
  /\ r.issue => BagCardinality(inflight) < MaxInFlight
  /\ statusLoading' = r.sl
  /\ lastStatusCheck' = r.last
  /\ value' = r.val
  /\ inflight' = IF r.issue THEN inflight (+) SetToBag({"check"}) ELSE inflight
  /\ KeepMounted(isSaving)

\* ----------------------------------------------------------- mount effect
\* a mount effect without try / catch / finally around the parse
InitEffectNoFinally ==
  LET throws == ~StoredFalsy(storage) /\ (ParseThrows(storage) \/ ReadThrows(storage))
  IN /\ ~mounted
     /\ mounted' = TRUE
     /\ loading' = throws
     /\ lastOp' = "mount"
     /\ thrown' = throws
     /\ IF StoredFalsy(storage) \/ throws
        THEN /\ user' = user
             /\ token' = token
        ELSE /\ user' = UserOf(LAMBDA k : Prop(storage, k))
             /\ token' = Prop(storage, "token")
     /\ Commit(AfterRender(token', user', userStatus, statusLoading,
                           lastStatusCheck, value, TRUE, user' # user))
     /\ UNCHANGED <<storage, quotaExceeded, userStatus, held, now, refreshLog>>
     /\ UNCHANGED views

InitEffect ==
  /\ ~mounted
  /\ mounted' = TRUE
  /\ loading' = FALSE
  /\ lastOp' = "mount"
  /\ thrown' = FALSE
  /\ IF StoredFalsy(storage) \/ ParseThrows(storage) \/ ReadThrows(storage)
     THEN /\ user' = user
          /\ token' = token
     ELSE /\ user' = UserOf(LAMBDA k : Prop(storage, k))
          /\ token' = Prop(storage, "token")
  /\ Commit(AfterRender(token', user', userStatus, statusLoading,
                        lastStatusCheck, value, TRUE, user' # user))
  /\ UNCHANGED <<storage, quotaExceeded, userStatus, held, now, refreshLog>>
  /\ UNCHANGED views

\* ------------------------------------------------------------------ login
\* a login that persists the record without its token
loginDropsToken(authData) ==
  /\ mounted
  /\ user' = UserOf(LAMBDA k : authData[k])
  /\ token' = authData.token
  /\ storage' = IF quotaExceeded
                THEN storage
                ELSE JSONStringify([authData EXCEPT !.token = Undefined])
  /\ thrown' = quotaExceeded
  /\ lastOp' = "login"
  /\ Commit(AfterRender(token', user', userStatus, statusLoading,
                        lastStatusCheck, value, TRUE, TRUE))
  /\ UNCHANGED <<quotaExceeded, mounted, loading, userStatus, held, now, refreshLog>>
  /\ UNCHANGED views

\* localStorage.setItem throws when the quota is exceeded, after both
\* state updates were queued
loginCall(authData) ==
  /\ mounted
  /\ user' = UserOf(LAMBDA k : authData[k])
  /\ token' = authData.token
  /\ storage' = IF quotaExceeded THEN storage ELSE JSONStringify(authData)
  /\ thrown' = quotaExceeded
  /\ lastOp' = "login"
  /\ Commit(AfterRender(token', user', userStatus, statusLoading,
                        lastStatusCheck, value, TRUE, TRUE))
  /\ UNCHANGED <<quotaExceeded, mounted, loading, userStatus, held, now, refreshLog>>

\* login called from a page that keeps no state of its own across the call
login(authData) ==
  /\ loginCall(authData)
  /\ UNCHANGED views

\* ----------------------------------------------------------------- logout
\* a logout that leaves the status cache alone
logoutKeepsStatus ==
  /\ mounted
  /\ user' = NullObj
  /\ token' = Null
  /\ storage' = Absent
  /\ thrown' = FALSE
  /\ lastOp' = "logout"
  /\ LET changed == user # NullObj \/ token # Null
     IN Commit(AfterRender(token', user', userStatus, statusLoading,
                           lastStatusCheck, value, changed, changed))
  /\ UNCHANGED <<quotaExceeded, mounted, loading, userStatus, held, now, refreshLog>>
  /\ UNCHANGED views

logout ==
  /\ mounted
  /\ user' = NullObj
  /\ token' = Null
  /\ userStatus' = NullObj
  /\ storage' = Absent
  /\ thrown' = FALSE
  /\ lastOp' = "logout"
  /\ LET changed == user # NullObj \/ token # Null \/ userStatus # NullObj
     IN Commit(AfterRender(token', user', userStatus', statusLoading,
                           lastStatusCheck, value, changed, changed))
  /\ UNCHANGED <<quotaExceeded, mounted, loading, held, now, refreshLog>>
  /\ UNCHANGED views

\* ------------------------------------------------------------------ clock
\* a second passes; the mount effect and a timer that is due run before
\* the clock moves on
Tick ==
  /\ mounted
  /\ now < MaxNow
  /\ \A h \in BagToSet(held) : h.kind \in {"verified", "saved1"} => h.due > now
  /\ now' = now + 1
  /\ UNCHANGED <<storage, quotaExceeded, mounted, user, token, loading, userStatus,
                 statusLoading, lastStatusCheck, value, inflight, held,
                 refreshLog, isSaving, lastOp, thrown>>
  /\ UNCHANGED views

\* ------------------------------------------- responses of the status query
\* a continuation that writes the cache only while it is empty
SettleKeepsFirst(q, st, op) ==
  /\ BagIn(q, inflight)
  /\ inflight' = inflight (-) SetToBag({q})
  /\ userStatus' = IF userStatus = NullObj THEN st ELSE userStatus
  /\ lastOp' = op
  /\ thrown' = FALSE
  /\ LET r == AfterRender(token, user, userStatus', FALSE, lastStatusCheck, value,
                          statusLoading \/ op # "refreshFail",
                          op # "refreshFail")
     IN /\ ~r.issue
        /\ statusLoading' = r.sl
        /\ lastStatusCheck' = r.last
        /\ value' = r.val
  /\ KeepMounted(isSaving)
  /\ UNCHANGED <<storage, quotaExceeded, mounted, user, token, loading, held, now,
                 refreshLog>>
  /\ UNCHANGED views

\* what the continuation of status query q leaves behind: the new cached
\* status st, statusLoading false, and the render that follows
Settle(q, st, op) ==
  /\ BagIn(q, inflight)
  /\ inflight' = inflight (-) SetToBag({q})
  /\ userStatus' = st
  /\ lastOp' = op
  /\ thrown' = FALSE
  /\ LET r == AfterRender(token, user, st, FALSE, lastStatusCheck, value,
                          statusLoading \/ op # "refreshFail",
                          op # "refreshFail")
     IN /\ ~r.issue
        /\ statusLoading' = r.sl
        /\ lastStatusCheck' = r.last
        /\ value' = r.val
  /\ KeepMounted(isSaving)
  /\ UNCHANGED <<storage, quotaExceeded, mounted, user, token, loading, held, now,
                 refreshLog>>
  /\ UNCHANGED views

\* checkStatus: await checkUserStatus(token) returned status
CheckStatusSuccess(status) == Settle("check", status, "checkOk")

\* a checkStatus whose catch only logs, as the one of refreshUserStatus
CheckStatusFailSwallow == Settle("check", userStatus, "checkFail")

\* checkStatus: await checkUserStatus(token) threw
CheckStatusFail == Settle("check", PessimisticDefault, "checkFail")

\* refreshUserStatus: await checkUserStatus(token) returned status
RefreshSuccess(status) == Settle("refresh", status, "refreshOk")

\* refreshUserStatus: await checkUserStatus(token) threw
RefreshFail == Settle("refresh", userStatus, "refreshFail")

\* ------------------------------------------------------ refreshUserStatus
\* the closure of refreshUserStatus a consumer got from the context value
Closure == [token |-> value.token, last |-> value.last]

\* the test at the head of refreshUserStatus, on the closure's values
RefreshGuard(c, t) == Truthy(c.token) /\ (t - c.last) > RefreshCooldown

\* a call of the refreshUserStatus held in closure c; saving is the
\* saving flag the caller leaves behind
refreshUserStatus(c, saving) ==
  IF RefreshGuard(c, now)
  THEN /\ BagCardinality(inflight) < MaxInFlight
       /\ inflight' = inflight (+) SetToBag({"refresh"})
       /\ refreshLog' = <<refreshLog[2], now>>
       /\ LET r == AfterRender(token, user, userStatus, TRUE, now, value,
                               ~statusLoading, now # lastStatusCheck)
          IN /\ ~r.issue
             /\ statusLoading' = r.sl
             /\ lastStatusCheck' = r.last
             /\ value' = r.val
             /\ KeepMounted(saving)
  ELSE /\ isSaving' = saving
       /\ UNCHANGED <<inflight, statusLoading, lastStatusCheck, value,
                      refreshLog>>

\* callback h was created by the ProfileCompletion that is on the screen:
\* the router has not replaced it since, so the context value is the one
\* the callback closed over
Owns(h) == HomeOrRedirect(value) = "ProfileCompletion" /\ h.c = Closure

\* a handleVerify that calls onVerified as soon as the response is there
VerifyEmailSuccessAtOnce ==
  /\ Screen = "email-verification"
  /\ now > value.last
  /\ BagCardinality(held) < MaxHeld
  /\ held' = held (+) SetToBag({[c |-> Closure, due |-> now, kind |-> "verified"]})
  /\ lastOp' = "verified"
  /\ thrown' = FALSE
  /\ UNCHANGED <<storage, quotaExceeded, mounted, user, token, loading, userStatus,
                 statusLoading, lastStatusCheck, value, inflight, now,
                 refreshLog, isSaving>>
  /\ UNCHANGED views

\* EmailVerification.handleVerify got success: onVerified of the current
\* render is called VerifiedDelay later.  The code is typed and verified
\* after the screen came up, later than the status query that the context
\* value of that render knows.  The form stays enabled after a success, so
\* it can be submitted again before the screen changes.
VerifyEmailSuccess ==
  /\ Screen = "email-verification"
  /\ now > value.last
  /\ BagCardinality(held) < MaxHeld
  /\ held' = held (+) SetToBag({[c |-> Closure, due |-> now + VerifiedDelay,
                                 kind |-> "verified"]})
  /\ lastOp' = "verified"
  /\ thrown' = FALSE
  /\ UNCHANGED <<storage, quotaExceeded, mounted, user, token, loading, userStatus,
                 statusLoading, lastStatusCheck, value, inflight, now,
                 refreshLog, isSaving>>
  /\ UNCHANGED views

\* onComplete of the onboarding screen, up to its await: the saving screen
\* is shown and createUserDescription is called; the inline onComplete
\* (version 1) and handleOnboardingComplete (version 2) hold the
\* refreshUserStatus of the current render.  The OnboardingFlow shows the
\* buttons of each of its four questions TypingDelay after the question, so
\* it completes more than the cooldown after the last status query.
OnboardingComplete(version) ==
  /\ Screen = "onboarding"
  /\ now - value.last > RefreshCooldown
  /\ Len(questions) * TypingDelay > RefreshCooldown
  /\ BagCardinality(held) < MaxHeld
  /\ isSaving' = TRUE
  /\ held' = held (+) SetToBag({[c |-> Closure, due |-> now,
                                 kind |-> IF version = 1 THEN "save1" ELSE "save2"]})
  /\ lastOp' = "complete"
  /\ thrown' = FALSE
  /\ UNCHANGED <<storage, quotaExceeded, mounted, user, token, loading, userStatus,
                 statusLoading, lastStatusCheck, value, inflight, now,
                 refreshLog>>
  /\ UNCHANGED views

\* version 1, createUserDescription returned: the refresh is called
\* SavedDelay later and the flag is cleared after it
DescriptionSaved(h) ==
  /\ BagIn(h, held)
  /\ h.kind = "save1"
  /\ held' = (held (-) SetToBag({h})) (+)
             SetToBag({[c |-> h.c, due |-> now + SavedDelay, kind |-> "saved1"]})
  /\ lastOp' = "saved"
  /\ thrown' = FALSE
  /\ UNCHANGED <<storage, quotaExceeded, mounted, user, token, loading, userStatus,
                 statusLoading, lastStatusCheck, value, inflight, now,
                 refreshLog, isSaving>>
  /\ UNCHANGED views

\* version 2, createUserDescription returned: refreshUserStatus is called
\* at once and the flag stays
DescriptionSavedRefresh(h) ==
  /\ BagIn(h, held)
  /\ h.kind = "save2"
  /\ held' = held (-) SetToBag({h})
  /\ refreshUserStatus(h.c, isSaving)
  /\ lastOp' = IF RefreshGuard(h.c, now) THEN "refresh" ELSE "refreshSkipped"
  /\ thrown' = FALSE
  /\ UNCHANGED <<storage, quotaExceeded, mounted, user, token, loading, userStatus, now>>
  /\ UNCHANGED views

\* a catch that leaves the saving screen up
DescriptionSaveFailedKeepsScreen(h) ==
  /\ BagIn(h, held)
  /\ h.kind \in {"save1", "save2"}
  /\ held' = held (-) SetToBag({h})
  /\ lastOp' = "saveFailed"
  /\ thrown' = FALSE
  /\ UNCHANGED <<storage, quotaExceeded, mounted, user, token, loading, userStatus,
                 statusLoading, lastStatusCheck, value, inflight, now,
                 refreshLog, isSaving>>
  /\ UNCHANGED views

\* createUserDescription threw: the catch of either version clears the
\* flag of its ProfileCompletion
DescriptionSaveFailed(h) ==
  /\ BagIn(h, held)
  /\ h.kind \in {"save1", "save2"}
  /\ held' = held (-) SetToBag({h})
  /\ isSaving' = (isSaving /\ ~Owns(h))
  /\ lastOp' = "saveFailed"
  /\ thrown' = FALSE
  /\ UNCHANGED <<storage, quotaExceeded, mounted, user, token, loading, userStatus,
                 statusLoading, lastStatusCheck, value, inflight, now,
                 refreshLog>>
  /\ UNCHANGED views

\* a delayed callback runs and calls its refreshUserStatus
RefreshCall(h) ==
  /\ BagIn(h, held)
  /\ h.kind \in {"verified", "saved1"}
  /\ h.due <= now
  /\ held' = held (-) SetToBag({h})
  /\ refreshUserStatus(h.c, isSaving /\ ~(h.kind = "saved1" /\ Owns(h)))
  /\ lastOp' = IF RefreshGuard(h.c, now) THEN "refresh" ELSE "refreshSkipped"
  /\ thrown' = FALSE
  /\ UNCHANGED <<storage, quotaExceeded, mounted, user, token, loading, userStatus, now>>
  /\ UNCHANGED views

\* ------------------------------------------------------------ page reload
\* window.location.reload() / window.location.href = '/': the application
\* starts again over the same localStorage
Reload ==
  /\ mounted
  /\ mounted' = FALSE
  /\ user' = NullObj
  /\ token' = Null
  /\ loading' = TRUE
  /\ userStatus' = NullObj
  /\ statusLoading' = FALSE
  /\ lastStatusCheck' = 0
  /\ value' = MemoValue(Null, NullObj, NullObj, FALSE, 0)
  /\ inflight' = EmptyBag
  /\ held' = EmptyBag
  /\ refreshLog' = <<0, 0>>
  /\ isSaving' = FALSE
  /\ lastOp' = "init"
  /\ thrown' = FALSE
  /\ UNCHANGED <<storage, quotaExceeded, now>>
  /\ UNCHANGED views

Next ==
  \/ InitEffect
  \/ \E a \in AuthDatas : login(a)
  \/ logout
  \/ Tick
  \/ \E s \in ApiStatuses : CheckStatusSuccess(s)
  \/ CheckStatusFail
  \/ \E s \in ApiStatuses : RefreshSuccess(s)
  \/ RefreshFail
  \/ VerifyEmailSuccess
  \/ \E version \in {1, 2} : OnboardingComplete(version)
  \/ \E h \in BagToSet(held) : DescriptionSaved(h)
  \/ \E h \in BagToSet(held) : DescriptionSavedRefresh(h)
  \/ \E h \in BagToSet(held) : DescriptionSaveFailed(h)
  \/ \E h \in BagToSet(held) : RefreshCall(h)
  \/ Reload

Spec == Init /\ [][Next]_vars

\* every status query gets its response or its failure, the mount effect
\* runs, and a timer that is due fires; what the user does is left open
Respond ==
  \/ \E s \in ApiStatuses : CheckStatusSuccess(s)
  \/ CheckStatusFail
  \/ \E s \in ApiStatuses : RefreshSuccess(s)
  \/ RefreshFail

LiveSpec ==
  /\ Init /\ [][Next]_vars
  /\ WF_vars(Respond)
  /\ WF_vars(InitEffect)
  /\ WF_vars(\E h \in BagToSet(held) : RefreshCall(h))

\* ========================================================= OnboardingFlow
\* what the user types into a text field
Texts == {<<>>, <<Space>>, <<"a">>, <<Space, "a", Space>>}

\* the entries of the bank dropdown: a bank of the list, or 'other'
BankChoices == {"Bank Mandiri", "other"}

\* the values of the options of a multiple choice question
OptionValues == {<<"optionA">>, <<"optionB">>}

Sentinel == <<"User skipped all questions">>

\* { ...obj, [key]: v }
Put(obj, key, v) ==
  [k \in DOMAIN obj \cup {key} |-> IF k = key THEN v ELSE obj[k]]

\* obj[key], where a missing key and the empty string are both falsy
Answer(obj, key) == IF key \in DOMAIN obj THEN obj[key] ELSE <<>>

\* questions.map(...).filter(Boolean).join(', ')
formattedDesc(allAnswers) ==
  LET mapped == [i \in 1..Len(questions) |->
                   IF Answer(allAnswers, questions[i].key) # <<>>
                   THEN [s |-> <<questions[i].question, ": ">> \o
                                 Answer(allAnswers, questions[i].key)]
                   ELSE NullObj]
      kept == SelectSeq(mapped, LAMBDA x : x # NullObj)
  IN join([i \in 1..Len(kept) |-> kept[i].s], <<", ">>)

currentQuestion == questions[flow.currentStep + 1]

\* a host whose onComplete leaves the OnboardingFlow on the screen
onCompleteKeepsFlow(f, description) ==
  [f EXCEPT !.described = Append(@, description)]

\* onComplete of every host (the two ProfileCompletion and Register) sets,
\* before anything else, the flag that takes the OnboardingFlow off the
\* screen
onComplete(f, description) ==
  [f EXCEPT !.described = Append(@, description), !.mounted = FALSE]

\* a step of the OnboardingFlow on the screen
FlowStep(f) ==
  /\ flow.mounted
  /\ flow' = f
  /\ UNCHANGED <<sessionVars, verification, call, lang, register>>

\* the timer of the typing animation
ShowInput ==
  /\ ~flow.showInput
  /\ FlowStep([flow EXCEPT !.showInput = TRUE])

\* onChange of the textarea
TextChange(txt) ==
  /\ flow.showInput
  /\ currentQuestion.type = "text"
  /\ FlowStep([flow EXCEPT !.currentAnswer = txt])

handleBankSelect(bank) ==
  /\ flow.showInput
  /\ currentQuestion.type = "bankSelect"
  /\ flow.selectedBank # "other"
  /\ FlowStep([flow EXCEPT !.selectedBank = bank, !.currentAnswer = <<bank>>])

handleOtherBankChange(txt) ==
  /\ flow.showInput
  /\ currentQuestion.type = "bankSelect"
  /\ flow.selectedBank = "other"
  /\ FlowStep([flow EXCEPT !.currentAnswer = txt])

\* the Change button next to the selected bank
ResetSelection ==
  /\ flow.showInput
  /\ currentQuestion.type = "bankSelect"
  /\ flow.selectedBank # ""
  /\ FlowStep([flow EXCEPT !.selectedBank = "", !.currentAnswer = <<>>])

handleOptionSelect(optionValue) ==
  /\ flow.showInput
  /\ currentQuestion.type = "multipleChoice"
  /\ FlowStep([flow EXCEPT
                 !.currentAnswer = optionValue,
                 !.answers = Put(@, currentQuestion.key, optionValue)])

\* a handleNext that leaves the answer buffer as it is
handleNextKeepsBuffer ==
  LET currentAnswerValue == trim(flow.currentAnswer)
      saved == IF currentAnswerValue # <<>>
               THEN Put(flow.answers, currentQuestion.key, currentAnswerValue)
               ELSE flow.answers
      f == [flow EXCEPT
              !.answers = saved,
              !.advanced = Put(@, flow.currentStep, currentAnswerValue)]
  IN /\ flow.showInput
     /\ currentAnswerValue # <<>>
     /\ IF flow.currentStep < Len(questions) - 1
        THEN FlowStep([f EXCEPT !.currentStep = @ + 1, !.showInput = FALSE])
        ELSE FlowStep(onComplete(f,
               formattedDesc(Put(flow.answers, currentQuestion.key,
                                 currentAnswerValue))))

\* the Next button is disabled while the trimmed answer is empty
handleNext ==
  LET currentAnswerValue == trim(flow.currentAnswer)
      saved == IF currentAnswerValue # <<>>
               THEN Put(flow.answers, currentQuestion.key, currentAnswerValue)
               ELSE flow.answers
      f == [flow EXCEPT
              !.answers = saved,
              !.advanced = Put(@, flow.currentStep, currentAnswerValue)]
  IN /\ flow.showInput
     /\ currentAnswerValue # <<>>
     /\ IF flow.currentStep < Len(questions) - 1
        THEN FlowStep([f EXCEPT !.currentStep = @ + 1, !.currentAnswer = <<>>,
                                !.showInput = FALSE])
        ELSE FlowStep(onComplete(f,
               formattedDesc(Put(flow.answers, currentQuestion.key,
                                 currentAnswerValue))))

handleSkip ==
  LET f == [flow EXCEPT !.skipped = @ \cup {flow.currentStep}]
      desc == formattedDesc(flow.answers)
  IN /\ flow.showInput
     /\ IF flow.currentStep < Len(questions) - 1
        THEN FlowStep([f EXCEPT !.currentStep = @ + 1, !.currentAnswer = <<>>,
                                !.showInput = FALSE])
        ELSE FlowStep(onComplete(f, IF desc # <<>> THEN desc ELSE Sentinel))

\* the host shows the onboarding again (the save failed, or the status
\* still lacks the description): a new instance
FlowRemount ==
  /\ ~flow.mounted
  /\ flow' = FlowStart
  /\ UNCHANGED <<sessionVars, verification, call, lang, register>>

FlowInit ==
  /\ SessionIdle
  /\ flow = FlowStart
  /\ verification = NoVerification
  /\ call = NoCall
  /\ lang = NoLang
  /\ register = NoRegister

FlowNext ==
  \/ ShowInput
  \/ \E txt \in Texts : TextChange(txt)
  \/ \E bank \in BankChoices : handleBankSelect(bank)
  \/ \E txt \in Texts : handleOtherBankChange(txt)
  \/ ResetSelection
  \/ \E v \in OptionValues : handleOptionSelect(v)
  \/ handleNext
  \/ handleSkip
  \/ FlowRemount

FlowSpec == FlowInit /\ [][FlowNext]_vars

\* ============================================================ authService
\* what fetch gives: a rejection (no connection), or a response with a
\* status and a body that response.json() parses or rejects
NetworkFailure == [failed |-> TRUE]

Statuses == {200, 201, 400, 401, 404, 500}

\* the bodies of the API: JSON objects with success and error, both optional
Bodies ==
  { [kind |-> "text"],
    [kind |-> "json", obj |-> [success |-> TRUE]],
    [kind |-> "json", obj |-> [success |-> TRUE, data |-> "d"]],
    [kind |-> "json", obj |-> [success |-> FALSE, error |-> <<"E">>]],
    [kind |-> "json", obj |-> [error |-> <<"E">>]],
    [kind |-> "json", obj |-> [error |-> <<>>]],
    [kind |-> "json", obj |-> [message |-> "m"]] }

Responses ==
  {NetworkFailure} \cup
  {[failed |-> FALSE, status |-> st, body |-> b] : st \in Statuses, b \in Bodies}

\* response.ok
ok(response) == response.status >= 200 /\ response.status <= 299

\* the outcome of an async function: it returned value, or threw an Error
\* with message
Returned(v) == [threw |-> FALSE, value |-> v, message |-> <<>>]
Threw(m) == [threw |-> TRUE, value |-> NullObj, message |-> m]

\* a request that hands back the body whatever the status
requestIgnoringStatus(response, generic) ==
  IF response.failed THEN Threw(<<"Failed to fetch">>)
  ELSE IF response.body.kind = "text" THEN Threw(<<"Unexpected token">>)
  ELSE Returned(response.body.obj)

\* the body shared by the eight functions: fetch, response.json(), the
\* test of response.ok, and a catch that logs and rethrows
request(response, generic) ==
  IF response.failed THEN Threw(<<"Failed to fetch">>)
  ELSE IF response.body.kind = "text" THEN Threw(<<"Unexpected token">>)
  ELSE IF ~ok(response)
       THEN LET data == response.body.obj
            IN Threw(IF "error" \in DOMAIN data /\ data.error # <<>>
                     THEN data.error ELSE generic)
  ELSE Returned(response.body.obj)

\* a call of an authService function that got response
ServiceCall(fn, generic, response) ==
  /\ call' = [fn |-> fn, response |-> response,
              outcome |-> request(response, generic)]
  /\ UNCHANGED <<sessionVars, flow, verification, lang, register>>

registerUser(response) ==
  ServiceCall("registerUser", <<"Registration failed">>, response)

loginUser(response) ==
  ServiceCall("loginUser", <<"Login failed">>, response)

verifyEmail(response) ==
  ServiceCall("verifyEmail", <<"Email verification failed">>, response)

regenerateVerificationCode(response) ==
  ServiceCall("regenerateVerificationCode",
              <<"Failed to regenerate verification code">>, response)

checkUserStatus(response) ==
  ServiceCall("checkUserStatus", <<"Failed to check user status">>, response)

createUserDescription(response) ==
  ServiceCall("createUserDescription",
              <<"Failed to create user description">>, response)

changePassword(response) ==
  ServiceCall("changePassword", <<"Failed to change password">>, response)

deleteAccount(response) ==
  ServiceCall("deleteAccount", <<"Failed to delete account">>, response)

ServiceInit ==
  /\ SessionIdle
  /\ flow = NoFlow
  /\ verification = NoVerification
  /\ call = NoCall
  /\ lang = NoLang
  /\ register = NoRegister

ServiceNext ==
  \/ \E r \in Responses : registerUser(r)
  \/ \E r \in Responses : loginUser(r)
  \/ \E r \in Responses : verifyEmail(r)
  \/ \E r \in Responses : regenerateVerificationCode(r)
  \/ \E r \in Responses : checkUserStatus(r)
  \/ \E r \in Responses : createUserDescription(r)
  \/ \E r \in Responses : changePassword(r)
  \/ \E r \in Responses : deleteAccount(r)

ServiceSpec == ServiceInit /\ [][ServiceNext]_vars

\* ====================================================== EmailVerification
MaxHint == 12          \* largest number of minutes the API names in an error

DefaultMinutes == 5    \* startCountdown(minutes = 5), startCountdown(5)

Digit == <<"0", "1", "2", "3", "4", "5", "6", "7", "8", "9">>

IsDigit(c) == \E d \in 1..Len(Digit) : Digit[d] = c

\* the decimal digits of n
RECURSIVE Decimal(_)
Decimal(n) ==
  IF n < 10 THEN <<Digit[n + 1]>> ELSE Decimal(n \div 10) \o <<Digit[(n % 10) + 1]>>

\* parseInt of a run of digits
RECURSIVE parseInt(_)
parseInt(ds) ==
  IF ds = <<>> THEN 0
  ELSE 10 * parseInt(SubSeq(ds, 1, Len(ds) - 1)) +
       (CHOOSE d \in 0..9 : Digit[d + 1] = ds[Len(ds)])

\* the error texts of POST /api/auth/regenerate_verification_code
StillValidFor(n) ==
  <<"Code", Space, "still", Space, "valid", Space, "for", Space>> \o
  Decimal(n) \o <<Space, "minutes">>

StillValidCode(n) ==
  <<"Code", Space, "4", "2", Space, "is", Space, "still", Space, "valid", ",",
    Space, "wait", Space>> \o Decimal(n) \o <<Space, "minutes">>

RateLimited(n) ==
  <<"Too", Space, "many", Space, "requests", ",", Space, "wait", Space>> \o
  Decimal(n) \o <<Space, "minutes">>

StillValid == <<"Code", Space, "is", Space, "still", Space, "valid">>

\* String.prototype.includes
includes(s, part) ==
  \E i \in 1..Len(s) :
    i + Len(part) - 1 <= Len(s) /\ SubSeq(s, i, i + Len(part) - 1) = part

\* the end of the run of digits that starts at i
RECURSIVE RunEnd(_, _)
RunEnd(s, i) ==
  IF i < Len(s) /\ IsDigit(s[i + 1]) THEN RunEnd(s, i + 1) ELSE i

\* /(\d+) minutes/ matches at i: digits from i on, then " minutes"
MatchesAt(s, i) ==
  /\ IsDigit(s[i])
  /\ RunEnd(s, i) + 2 <= Len(s)
  /\ s[RunEnd(s, i) + 1] = Space
  /\ s[RunEnd(s, i) + 2] = "minutes"

\* a match that takes the first number of the text, whatever follows it
firstNumber(s) ==
  IF \E i \in 1..Len(s) : IsDigit(s[i])
  THEN LET i == CHOOSE k \in 1..Len(s) :
                  IsDigit(s[k]) /\ \A j \in 1..(k - 1) : ~IsDigit(s[j])
       IN SubSeq(s, i, RunEnd(s, i))
  ELSE <<>>

\* error.message.match(/(\d+) minutes/)[1], or <<>> for no match
minutesMatch(s) ==
  IF \E i \in 1..Len(s) : MatchesAt(s, i)
  THEN LET i == CHOOSE k \in 1..Len(s) :
                  MatchesAt(s, k) /\ \A j \in 1..(k - 1) : ~MatchesAt(s, j)
       IN SubSeq(s, i, RunEnd(s, i))
  ELSE <<>>

\* the minutes handleResendCode starts the countdown with after a failure
minutesAfter(message) ==
  IF includes(message, <<"still", Space, "valid">>)
  THEN IF minutesMatch(message) # <<>>
       THEN parseInt(minutesMatch(message)) ELSE DefaultMinutes
  ELSE DefaultMinutes

\* the responses the resend is explored with
ResendResponses ==
  {NetworkFailure,
   [failed |-> FALSE, status |-> 200, body |-> [kind |-> "json", obj |-> [success |-> TRUE]]],
   [failed |-> FALSE, status |-> 200,
    body |-> [kind |-> "json", obj |-> [success |-> FALSE, error |-> <<"E">>]]],
   [failed |-> FALSE, status |-> 500, body |-> [kind |-> "text"]],
   [failed |-> FALSE, status |-> 400,
    body |-> [kind |-> "json", obj |-> [error |-> StillValid]]]}
  \cup
  {[failed |-> FALSE, status |-> 400, body |-> [kind |-> "json", obj |-> [error |-> m]]] :
     m \in {StillValidFor(n) : n \in 0..MaxHint} \cup
           {StillValidCode(n) : n \in 0..MaxHint} \cup
           {RateLimited(n) : n \in 0..MaxHint}}

\* a startCountdown that does not set countdownActive
startCountdownInactive(v, minutes) ==
  [v EXCEPT !.timeRemaining = minutes * 60, !.canResend = FALSE,
            !.intervals = @ + 1, !.started = minutes, !.ticks = 0]

startCountdown(v, minutes) ==
  [v EXCEPT !.timeRemaining = minutes * 60, !.canResend = FALSE,
            !.countdownActive = TRUE, !.intervals = @ + 1,
            !.started = minutes, !.ticks = 0]

\* a step of the EmailVerification on the screen
VerificationStep(v) ==
  /\ verification.mounted
  /\ verification' = v
  /\ UNCHANGED <<sessionVars, flow, call, lang, register>>

\* a resend button that is enabled during the countdown
handleResendCodeAnyTime ==
  /\ ~verification.isResending
  /\ VerificationStep([verification EXCEPT !.isResending = TRUE, !.error = <<>>,
                                           !.op = "resend"])

\* the resend button is disabled while !canResend || isResending
handleResendCode ==
  /\ verification.canResend
  /\ ~verification.isResending
  /\ VerificationStep([verification EXCEPT !.isResending = TRUE, !.error = <<>>,
                                           !.op = "resend"])

\* what regenerateVerificationCode does with response r
Regenerated(r) == request(r, <<"Failed to regenerate verification code">>)

\* a success branch that does not start the countdown
ResendSucceededNoCountdown(r) ==
  /\ verification.isResending
  /\ ~Regenerated(r).threw
  /\ "success" \in DOMAIN Regenerated(r).value
  /\ Regenerated(r).value.success
  /\ VerificationStep([verification EXCEPT !.isResending = FALSE,
                                           !.op = "resendOk"])

\* await regenerateVerificationCode(token) returned response.success true
ResendSucceeded(r) ==
  /\ verification.isResending
  /\ ~Regenerated(r).threw
  /\ "success" \in DOMAIN Regenerated(r).value
  /\ Regenerated(r).value.success
  /\ VerificationStep([startCountdown(verification, DefaultMinutes) EXCEPT
                         !.isResending = FALSE, !.op = "resendOk"])

\* it returned a body whose success is not true: only the finally runs
ResendUnsuccessful(r) ==
  /\ verification.isResending
  /\ ~Regenerated(r).threw
  /\ ~("success" \in DOMAIN Regenerated(r).value /\ Regenerated(r).value.success)
  /\ VerificationStep([verification EXCEPT !.isResending = FALSE,
                                           !.op = "resendUnsuccessful"])

\* it threw: the catch starts the countdown with the minutes of the message
ResendRejected(r) ==
  LET message == Regenerated(r).message
  IN /\ verification.isResending
     /\ Regenerated(r).threw
     /\ VerificationStep([startCountdown(verification, minutesAfter(message)) EXCEPT
                            !.isResending = FALSE, !.error = message,
                            !.op = "resendRejected"])

\* an interval callback that stops one second late
IntervalTickLate ==
  /\ verification.intervals > 0
  /\ IF verification.timeRemaining <= 0
     THEN VerificationStep([verification EXCEPT
            !.timeRemaining = 0, !.canResend = TRUE, !.countdownActive = FALSE,
            !.intervals = @ - 1, !.ticks = @ + 1, !.op = "tick"])
     ELSE VerificationStep([verification EXCEPT
            !.timeRemaining = @ - 1, !.ticks = @ + 1, !.op = "tick"])

\* the callback of setInterval, every second
IntervalTick ==
  /\ verification.intervals > 0
  /\ IF verification.timeRemaining <= 1
     THEN VerificationStep([verification EXCEPT
            !.timeRemaining = 0, !.canResend = TRUE, !.countdownActive = FALSE,
            !.intervals = @ - 1, !.ticks = @ + 1, !.op = "tick"])
     ELSE VerificationStep([verification EXCEPT
            !.timeRemaining = @ - 1, !.ticks = @ + 1, !.op = "tick"])

\* the host stops rendering the EmailVerification; the component has no
\* effect cleanup, so an interval that runs is not cleared
VerificationUnmount ==
  /\ VerificationStep([verification EXCEPT !.mounted = FALSE, !.op = "unmount"])

\* the callback of setInterval after the component was taken off the
\* screen: its update of the discarded state is applied or dropped
IntervalTickUnmounted ==
  /\ ~verification.mounted
  /\ verification.intervals > 0
  /\ \/ verification' = [verification EXCEPT !.op = "tick"]
     \/ verification' =
          IF verification.timeRemaining <= 1
          THEN [verification EXCEPT
                  !.timeRemaining = 0, !.canResend = TRUE, !.countdownActive = FALSE,
                  !.intervals = @ - 1, !.ticks = @ + 1, !.op = "tick"]
          ELSE [verification EXCEPT
                  !.timeRemaining = @ - 1, !.ticks = @ + 1, !.op = "tick"]
  /\ UNCHANGED <<sessionVars, flow, call, lang, register>>

VerificationInit ==
  /\ SessionIdle
  /\ flow = NoFlow
  /\ verification = VerificationStart
  /\ call = NoCall
  /\ lang = NoLang
  /\ register = NoRegister

VerificationNext ==
  \/ handleResendCode
  \/ \E r \in ResendResponses : ResendSucceeded(r)
  \/ \E r \in ResendResponses : ResendUnsuccessful(r)
  \/ \E r \in ResendResponses : ResendRejected(r)
  \/ IntervalTick
  \/ VerificationUnmount
  \/ IntervalTickUnmounted

VerificationSpec == VerificationInit /\ [][VerificationNext]_vars

\* ======================================================= LanguageProvider
\* useEffect(..., [language]): try { setItem } catch { }
Persist(l) ==
  [l EXCEPT !.stored = IF quotaExceeded THEN @ ELSE l.language]

\* the effect after the first render
LanguageMount ==
  /\ ~lang.mounted
  /\ lang' = Persist([lang EXCEPT !.mounted = TRUE])
  /\ lastOp' = "languageMount"
  /\ thrown' = FALSE
  /\ UNCHANGED <<storage, quotaExceeded, mounted, user, token, loading, userStatus,
                 statusLoading, lastStatusCheck, value, inflight, held, now,
                 refreshLog, isSaving, flow, verification, call, register>>

\* Navbar.handleLanguageChange: setLanguage, then the effect of the render
handleLanguageChange(newLanguage) ==
  /\ lang.mounted
  /\ newLanguage # lang.language
  /\ lang' = Persist([lang EXCEPT !.language = newLanguage,
                                  !.requested = newLanguage])
  /\ lastOp' = "language"
  /\ thrown' = FALSE
  /\ UNCHANGED <<storage, quotaExceeded, mounted, user, token, loading, userStatus,
                 statusLoading, lastStatusCheck, value, inflight, held, now,
                 refreshLog, isSaving, flow, verification, call, register>>

\* the two stores of the client over one localStorage
StoreInit ==
  /\ \E s \in FullStoreContents, q \in BOOLEAN : SessionStart(s, q)
  /\ flow = NoFlow
  /\ verification = NoVerification
  /\ call = NoCall
  /\ lang \in {LanguageStart(saved) : saved \in LanguageItems}
  /\ register = NoRegister

StoreNext ==
  \/ InitEffect
  \/ LanguageMount
  \/ \E a \in AuthDatas : login(a)
  \/ logout
  \/ \E l \in {"en", "id"} : handleLanguageChange(l)
  \/ \E st \in ApiStatuses : CheckStatusSuccess(st)
  \/ CheckStatusFail

StoreSpec == StoreInit /\ [][StoreNext]_vars

\* =============================================================== Register
\* how often the form is submitted
MaxAttempts == 2

\* localStorage.setItem stores String(value)
ItemText(v) == IF v = Undefined THEN "undefined" ELSE v

\* the data of a successful registration response; nothing checks that the
\* token is present
RegistrationDatas == {[token |-> "t1", user_id |-> "u1"],
                      [token |-> Undefined, user_id |-> "u1"]}

Logged(r, e, tok) == [r EXCEPT !.log = Append(@, [e |-> e, token |-> tok])]

\* a step of the Register page
RegisterStep(r) ==
  /\ mounted
  /\ register.mounted
  /\ register' = r
  /\ UNCHANGED <<sessionVars, flow, verification, call, lang>>

\* handleSubmit with a valid form: the button is disabled while isLoading
\* or successMessage
handleSubmit ==
  /\ ~register.showEmailVerification
  /\ ~register.showOnboarding
  /\ ~register.isLoading
  /\ ~register.successMessage
  /\ register.attempts < MaxAttempts
  /\ RegisterStep([register EXCEPT !.errors = FALSE, !.isLoading = TRUE,
                                   !.request = "register", !.attempts = @ + 1])

\* handleRegistration: registerUser returned success true with data d; the
\* two setItem throw into the catch when the store is full
RegistrationSucceeded(d) ==
  /\ register.request = "register"
  /\ IF quotaExceeded
     THEN RegisterStep([register EXCEPT !.request = "", !.isLoading = FALSE,
                                        !.errors = TRUE])
     ELSE RegisterStep(Logged([register EXCEPT
                                 !.request = "", !.isLoading = FALSE,
                                 !.registration_token = ItemText(d.token),
                                 !.user_id = ItemText(d.user_id),
                                 !.successMessage = TRUE,
                                 !.pendingVerification = @ + 1],
                              "registered", ItemText(d.token)))

\* registerUser returned a body whose success is not true
RegistrationUnsuccessful ==
  /\ register.request = "register"
  /\ RegisterStep([register EXCEPT !.request = "", !.isLoading = FALSE])

\* registerUser threw
RegistrationFailed ==
  /\ register.request = "register"
  /\ RegisterStep([register EXCEPT !.request = "", !.isLoading = FALSE,
                                   !.errors = TRUE])

\* the timeout of 1500 ms after the registration
ShowVerification ==
  /\ register.pendingVerification > 0
  /\ RegisterStep([register EXCEPT !.pendingVerification = @ - 1,
                                   !.showEmailVerification = TRUE])

\* EmailVerification.handleVerify got success: onVerified is called 2000 ms
\* later; the form can be submitted again until then
VerificationSucceeded ==
  /\ register.showEmailVerification
  /\ register.pendingVerified < MaxHeld
  /\ RegisterStep(Logged([register EXCEPT !.pendingVerified = @ + 1],
                         "verified", register.registration_token))

\* onVerified of the Register page
onVerified ==
  /\ register.pendingVerified > 0
  /\ RegisterStep([register EXCEPT !.pendingVerified = @ - 1,
                                   !.showEmailVerification = FALSE,
                                   !.pendingOnboarding = @ + 1])

\* the timeout of 2500 ms after onVerified
ShowOnboarding ==
  /\ register.pendingOnboarding > 0
  /\ LET r == [register EXCEPT !.pendingOnboarding = @ - 1,
                               !.showOnboarding = TRUE]
     IN RegisterStep(IF register.showOnboarding THEN r
                     ELSE Logged(r, "onboarding", register.registration_token))

\* onComplete of the OnboardingFlow: handleOnboardingComplete and the part
\* of handleCreateDescriptionAndLogin before its await.  The OnboardingFlow
\* shows the buttons of each of its four questions 2000 ms after the
\* question, so the timers of the page have fired by then.
handleOnboardingComplete ==
  /\ register.showOnboarding
  /\ ~register.showEmailVerification
  /\ register.pendingVerified = 0
  /\ register.pendingOnboarding = 0
  /\ LET r == [register EXCEPT !.showOnboarding = FALSE, !.successMessage = FALSE]
     IN IF register.registration_token \in {Null, ""}
        THEN RegisterStep(Logged([r EXCEPT !.errors = TRUE], "noToken", Null))
        ELSE RegisterStep([r EXCEPT !.isLoading = TRUE, !.request = "save",
                                    !.registrationToken = register.registration_token])

\* a catch that removes the temporary items
DescriptionRejectedCleansUp ==
  /\ register.request = "save"
  /\ RegisterStep(Logged([register EXCEPT !.request = "", !.isLoading = FALSE,
                                          !.errors = TRUE,
                                          !.registration_token = Null,
                                          !.user_id = Null],
                         "saveFailed", register.registrationToken))

\* createUserDescription threw: the catch shows the error
DescriptionRejected ==
  /\ register.request = "save"
  /\ RegisterStep(Logged([register EXCEPT !.request = "", !.isLoading = FALSE,
                                          !.errors = TRUE],
                         "saveFailed", register.registrationToken))

\* createUserDescription returned: login with the token read before the
\* request and the user_id item read now, then the two items are removed;
\* a login that throws skips the removal
DescriptionCreated ==
  LET authData == [user_id |-> register.user_id, username |-> "bob",
                   email |-> "b@x.com", token |-> register.registrationToken]
      saved == Logged(Logged([register EXCEPT !.request = "", !.isLoading = FALSE],
                             "saved", register.registrationToken),
                      "login", authData.token)
  IN /\ register.mounted
     /\ register.request = "save"
     /\ loginCall(authData)
     /\ register' = IF quotaExceeded
                    THEN [saved EXCEPT !.errors = TRUE]
                    ELSE [saved EXCEPT !.registration_token = Null,
                                       !.user_id = Null,
                                       !.successMessage = TRUE,
                                       !.pendingNavigate = @ + 1]
     /\ UNCHANGED <<flow, verification, call, lang>>

\* navigate('/claudia'), 2000 ms after the login
Navigate ==
  /\ register.pendingNavigate > 0
  /\ RegisterStep([register EXCEPT !.pendingNavigate = @ - 1, !.mounted = FALSE])

\* the two items are removed from outside the page, as another Register
\* page over the same localStorage does when it completes
ItemsRemoved ==
  /\ register.registration_token # Null
  /\ RegisterStep([register EXCEPT !.registration_token = Null, !.user_id = Null])

RegisterInit ==
  /\ \E q \in BOOLEAN : SessionStart(Absent, q)
  /\ flow = NoFlow
  /\ verification = NoVerification
  /\ call = NoCall
  /\ lang = NoLang
  /\ register = RegisterStart

RegisterNext ==
  \/ InitEffect
  \/ handleSubmit
  \/ \E d \in RegistrationDatas : RegistrationSucceeded(d)
  \/ RegistrationUnsuccessful
  \/ RegistrationFailed
  \/ ShowVerification
  \/ VerificationSucceeded
  \/ onVerified
  \/ ShowOnboarding
  \/ handleOnboardingComplete
  \/ DescriptionRejected
  \/ DescriptionCreated
  \/ Navigate
  \/ ItemsRemoved

RegisterSpec == RegisterInit /\ [][RegisterNext]_vars

\* ================================================================= claims

\* C1: the router shows the assistant view (Claudia) only to an
\* authenticated user whose cached status is resolved with
\* all_requirements_met true; with an unknown status it never shows it.
C1_AssistantOnlyWhenReady ==
  (HomeOrRedirect(value) = "Claudia" \/ ProtectedClaudia(value) = "Claudia") =>
    /\ isAuthenticated
    /\ userStatus # NullObj
    /\ userStatus.all_requirements_met

\* C2: two calls of refreshUserStatus less than the cooldown apart issue at
\* most one status query.
C2_OneQueryPerCooldown ==
  refreshLog[1] = 0 \/ refreshLog[2] - refreshLog[1] >= RefreshCooldown

\* C3: with every status query answered, an authenticated user whose
\* status is unknown does not stay so: the status becomes non-null.
C3_StatusEventuallyKnown ==
  (isAuthenticated /\ userStatus = NullObj) ~>
    (userStatus # NullObj \/ ~isAuthenticated)

\* C4: when the query of checkStatus fails, nothing is thrown,
\* statusLoading is false again and the cached status is the pessimistic
\* default with both requirements missing.
C4_CheckFailureFallsBack ==
  lastOp = "checkFail" =>
    /\ ~thrown
    /\ ~statusLoading
    /\ userStatus =
         [is_verified |-> FALSE, has_description |-> FALSE,
          all_requirements_met |-> FALSE,
          missing_requirements |-> <<"email_verification", "user_description">>]

C4_Witness ==
  /\ lastOp = "checkFail"
  /\ userStatus # NullObj
  /\ Len(userStatus.missing_requirements) = 2

\* C5: for a resolved status with requirements missing, both versions of
\* ProfileCompletion show the email verification whenever
\* email_verification is missing, and show the onboarding only to a
\* verified user who lacks the description.
C5_VerificationBeforeOnboarding ==
  HomeOrRedirect(value) = "ProfileCompletion" =>
    LET st == value.userStatus
        p1 == ProfileScreen(st, value.statusLoading)
        p2 == StepSelection(st, value.statusLoading)
        noEmail == Includes(st.missing_requirements, email_verification)
        noDescription == Includes(st.missing_requirements, user_description)
    IN /\ noEmail => (p1 = "email-verification" /\ p2 = "email-verification")
       /\ (p1 = "onboarding" \/ p2 = "onboarding") =>
            (st.is_verified /\ ~noEmail /\ noDescription)

C5_Witness ==
  /\ HomeOrRedirect(value) = "ProfileCompletion"
  /\ value.userStatus.missing_requirements = <<email_verification, user_description>>
  /\ Screen = "email-verification"

\* C6: after login(authData) returned, user is {userId, username, email} of
\* authData, token is authData.token, the stored record reads back as
\* authData, and isAuthenticated holds when authData.token is present;
\* a record without a usable token is accepted all the same.
C6_LoginStoresSession ==
  (lastOp = "login" /\ ~thrown) =>
    \E a \in AuthDatas :
      /\ user = [userId |-> a.user_id, username |-> a.username, email |-> a.email]
      /\ token = a.token
      /\ storage.kind = "json"
      /\ \A k \in Keys : Prop(storage, k) = a[k]
      /\ Truthy(a.token) => isAuthenticated

C6_Witness ==
  /\ lastOp = "login" /\ ~thrown
  /\ token = "t1"
  /\ isAuthenticated
  /\ Prop(storage, "token") = "t1"

\* C7: after logout() user, token and the cached status are null,
\* isAuthenticated is false and no session record is stored.
C7_LogoutClears ==
  lastOp = "logout" =>
    /\ user = NullObj
    /\ token = Null
    /\ userStatus = NullObj
    /\ ~isAuthenticated
    /\ storage = Absent

C7_Witness == lastOp = "logout" /\ lastStatusCheck > 0

\* C8: isAuthenticated is true exactly when a token is present (not null,
\* not undefined, not empty), whether or not a user record is present.
C8_AuthenticatedIffToken ==
  isAuthenticated <=> (token # Null /\ token # Undefined /\ token # "")

C8_Witness ==
  /\ lastOp = "login"
  /\ user # NullObj
  /\ token = Undefined
  /\ ~isAuthenticated

\* C9: after the mount effect, loading is false and nothing was thrown; a
\* missing or unparseable record leaves user and token null, a record that
\* login wrote restores user and token.
C9_InitRestores ==
  lastOp = "mount" =>
    /\ ~loading
    /\ ~thrown
    /\ storage \in {Absent, EmptyText, BadText} =>
         (user = NullObj /\ token = Null)
    /\ \A a \in AuthDatas :
         storage = JSONStringify(a) =>
           /\ user = [userId |-> a.user_id, username |-> a.username,
                      email |-> a.email]
           /\ token = a.token

C9_Witness ==
  /\ lastOp = "mount"
  /\ storage = BadText
  /\ user = NullObj /\ token = Null /\ ~loading

\* C10: a call of refreshUserStatus made within the cooldown of the last
\* query issues no query and leaves the cached status, statusLoading and
\* lastStatusCheck as they were.
C10_CallWithinCooldownIsNoOp ==
  [][(/\ held' # held
      /\ lastOp' \in {"refresh", "refreshSkipped"}
      /\ lastStatusCheck > 0
      /\ now - lastStatusCheck < RefreshCooldown)
     => UNCHANGED <<inflight, userStatus, statusLoading, lastStatusCheck>>]_vars

\* C11: once every question was passed by Next or Skip, the description
\* handed to onComplete has one "prompt: answer" segment for each question
\* answered with Next and none for the others, in the order of the
\* questions, joined by ", ".
C11_OneSegmentPerAnsweredQuestion ==
  flow.described # <<>> =>
    LET steps == SelectSeq([i \in 1..Len(questions) |-> i - 1],
                           LAMBDA i : i \in DOMAIN flow.advanced)
        segments == [j \in 1..Len(steps) |->
                       <<questions[steps[j] + 1].question, ": ">> \o
                       flow.advanced[steps[j]]]
    IN \/ flow.described[1] = join(segments, <<", ">>)
       \/ segments = <<>> /\ flow.described[1] = <<"User skipped all questions">>

\* C12: the description handed to onComplete is never the empty string, and
\* it is "User skipped all questions" when every question was skipped.
C12_NeverEmptyDescription ==
  flow.described # <<>> =>
    /\ flow.described[1] # <<>>
    /\ flow.skipped = {i - 1 : i \in 1..Len(questions)} =>
         flow.described[1] = <<"User skipped all questions">>

\* C13: what the user typed or selected for a question left with Skip is
\* neither among the recorded answers nor in the description.
C13_SkipRecordsNothing ==
  \A i \in flow.skipped :
    /\ questions[i + 1].key \notin DOMAIN flow.answers
    /\ flow.described # <<>> =>
         \A j \in 1..Len(flow.described[1]) :
           flow.described[1][j] # questions[i + 1].question

\* C14: an OnboardingFlow instance calls onComplete at most once, on the
\* Next or Skip of its last question, and is off the screen from then on,
\* so that it takes no further Next or Skip.
C14_CompletesOnce ==
  /\ Len(flow.described) <= 1
  /\ flow.described # <<>> =>
       /\ ~flow.mounted
       /\ flow.currentStep = Len(questions) - 1
       /\ ~ENABLED handleNext
       /\ ~ENABLED handleSkip

C14_Witness ==
  /\ Len(flow.described) = 1
  /\ ~flow.mounted
  /\ flow.advanced # <<>>
  /\ flow.skipped # {}

\* C15: a countdown started at m >= 1 minutes loses one second with every
\* tick; canResend is false during the first 60*m - 1 ticks and true from
\* tick 60*m on (300 for the default), when the timer is cleared and the
\* remaining time is 0.
C15_CountdownTicks ==
  verification.started >= 1 =>
    LET total == 60 * verification.started
    IN /\ verification.ticks <= total
       /\ verification.timeRemaining = total - verification.ticks
       /\ verification.canResend <=> verification.ticks = total
       /\ verification.intervals = IF verification.ticks = total THEN 0 ELSE 1

C15_Witness ==
  /\ verification.started = 5
  /\ verification.ticks = 300
  /\ verification.canResend
  /\ verification.timeRemaining = 0
  /\ verification.intervals = 0

\* C16: when the resend is rejected with a message that says the code is
\* still valid and names "<N> minutes", the countdown starts at N*60
\* seconds with the resend disabled.
C16_CountdownFromHint ==
  verification.op = "resendRejected" =>
    \A n \in 0..MaxHint :
      verification.error \in {StillValidFor(n), StillValidCode(n)} =>
        /\ verification.timeRemaining = n * 60
        /\ ~verification.canResend
        /\ verification.countdownActive

C16_Witness ==
  /\ verification.op = "resendRejected"
  /\ verification.error =
       <<"Code", " ", "still", " ", "valid", " ", "for", " ", "3", " ", "minutes">>
  /\ verification.timeRemaining = 180

\* C17: after a resend that returned success, the remaining time is 300
\* seconds, the resend is disabled and one timer is running; every start
\* of the countdown sets the remaining time to minutes*60 and disables the
\* resend.
C17_ResendRestartsCountdown ==
  /\ verification.op = "resendOk" =>
       /\ verification.timeRemaining = 300
       /\ ~verification.canResend
       /\ verification.countdownActive
       /\ verification.intervals = 1
  /\ verification.op \in {"resendOk", "resendRejected"} =>
       /\ verification.timeRemaining = verification.started * 60
       /\ ~verification.canResend

C17_Witness ==
  /\ verification.op = "resendOk"
  /\ verification.timeRemaining = 300
  /\ verification.intervals = 1

C19_StorageFailureIgnored ==
  /\ lastOp \in {"login", "logout", "language"} => ~thrown
  /\ lastOp = "login" => user # NullObj
  /\ lastOp = "logout" => (user = NullObj /\ token = Null)
  /\ lastOp = "language" => lang.language = lang.requested

\* C20: every status in the cache, received from the API or the fallback
\* of a failed query, has all_requirements_met true exactly when
\* missing_requirements is empty.
C20_StatusConsistent ==
  userStatus # NullObj =>
    (userStatus.all_requirements_met <=> userStatus.missing_requirements = <<>>)

C20_Witness ==
  /\ lastOp = "refreshOk"
  /\ userStatus # NullObj
  /\ userStatus.all_requirements_met
  /\ userStatus.missing_requirements = <<>>

\* C23: at any time at most one status query started by the session store
\* (by the checkStatus effect or by refreshUserStatus) is in flight
C23_OneQueryInFlight == BagCardinality(inflight) <= 1

\* C27: whenever no token is present the cached status is null; a status
\* query that was started before the token went away does not fill the
\* cache when it completes
C27_NoStatusWithoutToken == ~Truthy(token) => userStatus = NullObj

\* C24: two status queries were outstanding together and the first has been
\* answered with a status; when the second is answered with status s, the
\* cached status and the context value carry s, whichever of the two
\* queries was issued first
C24_LastResponseWins ==
  [][\A s \in ApiStatuses :
       \A q \in {"check", "refresh"} :
         ( /\ lastOp \in {"checkOk", "refreshOk"}
           /\ BagCardinality(inflight) = 1
           /\ Settle(q, s, IF q = "check" THEN "checkOk" ELSE "refreshOk") )
         => (userStatus' = s /\ value'.userStatus = s)]_vars

\* the first of two outstanding queries has been answered with a status
\* other than the one the second will carry, the second is still in flight
C24_Witness ==
  /\ lastOp \in {"checkOk", "refreshOk"}
  /\ BagCardinality(inflight) = 1
  /\ userStatus \in ApiStatuses
  /\ userStatus.is_verified
  /\ \E s \in ApiStatuses : ~s.is_verified /\ ENABLED RefreshSuccess(s)

\* C25: once a component that owns timers is off the screen none of its
\* timer callbacks runs; here the countdown interval of EmailVerification
C25_NoTimerAfterTeardown == ~verification.mounted => verification.op # "tick"

\* C26: a Next on a question that is not the last, with a non-empty
\* trimmed answer, records that answer under the key of the question, moves
\* the step forward by one and empties the answer buffer; the step is
\* always within 0..questions.length-1 and an instance never moves it back
C26_NextAdvances ==
  /\ [](flow.currentStep \in 0..(Len(questions) - 1))
  /\ [][ /\ flow.mounted => flow'.currentStep >= flow.currentStep
         /\ ( /\ flow'.advanced # flow.advanced
              /\ flow.currentStep < Len(questions) - 1
              /\ trim(flow.currentAnswer) # <<>> )
            => /\ questions[flow.currentStep + 1].key \in DOMAIN flow'.answers
               /\ flow'.answers[questions[flow.currentStep + 1].key] =
                    trim(flow.currentAnswer)
               /\ flow'.currentStep = flow.currentStep + 1
               /\ flow'.currentAnswer = <<>> ]_vars

\* the second question was answered and left with Next
C26_Witness ==
  /\ flow.mounted
  /\ flow.currentStep = 2
  /\ 1 \in DOMAIN flow.advanced
  /\ "investmentTypes" \in DOMAIN flow.answers
  /\ flow.answers["investmentTypes"] = <<"a">>
  /\ flow.currentAnswer = <<>>

\* C28: over resend clicks, their responses and ticks, one
\* EmailVerification has at most one countdown interval running, and no
\* step takes more than one second off the remaining time
C28_OneInterval ==
  /\ [](verification.intervals <= 1)
  /\ [][verification'.timeRemaining >= verification.timeRemaining - 1]_vars

\* the countdown that a rejected resend started has ticked
C28_Witness ==
  /\ verification.mounted
  /\ verification.op = "tick"
  /\ verification.error \in {RateLimited(n) : n \in 0..MaxHint}
  /\ verification.ticks >= 2
  /\ verification.intervals = 1

\* C29: canResend is the negation of countdownActive, the remaining time
\* is never negative, the remaining time is 0 whenever canResend holds,
\* and the resend cannot be clicked while the remaining time is positive
C29_CountdownState ==
  /\ verification.canResend <=> ~verification.countdownActive
  /\ verification.timeRemaining >= 0
  /\ verification.canResend => verification.timeRemaining = 0
  /\ verification.timeRemaining > 0 => ~ENABLED handleResendCode

C29_Witness ==
  /\ verification.mounted
  /\ verification.timeRemaining = 299
  /\ ~verification.canResend
  /\ verification.countdownActive
  /\ ~ENABLED handleResendCode

\* C30: the registration flow goes registration success, email
\* verification, onboarding, description saved, login: login is called only
\* right after createUserDescription succeeded with the registration token
\* of that registration; when the token is missing or the save fails the
\* session store is left as it was and the registration token is not removed
C30_RegistrationOrder ==
  /\ [](/\ \A i \in DOMAIN register.log :
             /\ register.log[i].e = "login" =>
                  /\ i > 1
                  /\ register.log[i - 1].e = "saved"
                  /\ register.log[i - 1].token = register.log[i].token
             /\ register.log[i].e = "saved" =>
                  \E m \in 1..(i - 1) :
                    /\ register.log[m].e = "registered"
                    /\ \A n \in (m + 1)..(i - 1) : register.log[n].e # "registered"
                    /\ register.log[m].token = register.log[i].token
                    /\ \E k \in (m + 1)..(i - 1) :
                         /\ register.log[k].e = "verified"
                         /\ \E j \in (k + 1)..(i - 1) :
                              register.log[j].e = "onboarding"
        /\ (\A x \in DOMAIN register.log : register.log[x].e # "login") =>
             (user = NullObj /\ token = Null /\ storage = Absent /\ ~isAuthenticated))
  /\ [][(/\ Len(register'.log) > Len(register.log)
         /\ register'.log[Len(register'.log)].e \in {"noToken", "saveFailed"})
        => /\ UNCHANGED <<user, token, storage, value>>
           /\ register'.registration_token = register.registration_token
           /\ register'.user_id = register.user_id]_vars

\* a first registration whose save failed, and a second one that ended
\* with the login and the removal of the token
C30_Witness ==
  /\ \E i \in DOMAIN register.log : register.log[i].e = "saveFailed"
  /\ register.log[Len(register.log)].e = "login"
  /\ token = "t1"
  /\ isAuthenticated
  /\ register.registration_token = Null

\* C21: after a successful verification on the verification screen the
\* delayed onVerified runs and its refreshUserStatus issues a status query,
\* it is never skipped; and when a response reports the email verified the
\* router has left the verification screen
C21_VerificationRefreshes ==
  /\ [](\A h \in BagToSet(held) : h.kind = "verified" => RefreshGuard(h.c, h.due))
  /\ [][\A h \in BagToSet(held) :
          (h.kind = "verified" /\ RefreshCall(h)) =>
            /\ lastOp' = "refresh"
            /\ inflight' = inflight (+) SetToBag({"refresh"})
            /\ statusLoading']_vars
  /\ [](lastOp \in {"checkOk", "refreshOk"} /\ userStatus.is_verified
          => Screen # "email-verification")
  /\ (\E h \in BagToSet(held) : h.kind = "verified" /\ h.due <= now)
       ~> (lastOp = "refresh" \/ ~mounted)

\* the query that the delayed onVerified issued was answered with a
\* verified status and the router shows the onboarding
C21_Witness ==
  /\ lastOp = "refreshOk"
  /\ refreshLog[2] > 0
  /\ userStatus # NullObj
  /\ userStatus.is_verified
  /\ Screen = "onboarding"

\* C22: on the gated onboarding screen the refresh is called only after
\* createUserDescription returned, and then it issues a status query; when
\* createUserDescription fails no query is issued and the saving screen
\* gives way to the onboarding again (as long as the cached status still
\* asks for the description)
C22_RefreshAfterSave ==
  /\ [](\A h \in BagToSet(held) :
          /\ h.kind = "saved1" => RefreshGuard(h.c, h.due)
          /\ h.kind = "save2" => RefreshGuard(h.c, now))
  /\ [][\A h \in BagToSet(held) :
          /\ ((h.kind = "saved1" /\ RefreshCall(h)) \/ DescriptionSavedRefresh(h)) =>
               /\ lastOp' = "refresh"
               /\ inflight' = inflight (+) SetToBag({"refresh"})
          /\ (\E v \in {1, 2} : OnboardingComplete(v)) \/ DescriptionSaved(h) =>
               UNCHANGED <<inflight, lastStatusCheck, statusLoading, refreshLog>>
          /\ DescriptionSaveFailed(h) =>
               /\ UNCHANGED <<inflight, lastStatusCheck, statusLoading, refreshLog>>
               /\ \A k \in BagToSet(held') : k.kind = "saved1" => BagIn(k, held)
               /\ (Owns(h) /\ Screen = "saving") =>
                    /\ ~isSaving'
                    /\ ProfileScreen(value.userStatus, value.statusLoading) =
                         "onboarding" => Screen' = "onboarding"]_vars
  /\ (\E h \in BagToSet(held) : h.kind = "saved1" /\ h.due <= now)
       ~> (lastOp = "refresh" \/ ~mounted)

\* the save of the screen has failed and the onboarding is shown again
C22_Witness ==
  /\ lastOp = "saveFailed"
  /\ Screen = "onboarding"
  /\ inflight = EmptyBag
  /\ \E v \in {1, 2} : ENABLED OnboardingComplete(v)

====
